---- MODULE Spec2Model ----
(***************************************************************************)
(* Russel's Viper (src/russels-viper.tsx): the state of the RusselsViper   *)
(* component and its handlers, one action per handler.  A handler runs on  *)
(* the values of the latest render, so every action reads the unprimed     *)
(* variables, exactly as the closures of the source do.                    *)
(***************************************************************************)
EXTENDS Integers, Sequences, FiniteSets, TLC

VARIABLES snake, direction, food, obstacles, gameOver, score, difficulty,
          snakeColor, gridSize, isPlaying, loops, applied

vars == <<snake, direction, food, obstacles, gameOver, score, difficulty,
          snakeColor, gridSize, isPlaying, loops, applied>>

(* ------------------------------ bounds --------------------------------- *)

\* Math.random() returns one of k / RandDen, 0 <= k < RandNum.
RandDen == 5
RandNum == 4
\* Spec follows a game up to this score, SpecPlay up to MaxPlayScore.
MaxScore == 1
MaxPlayScore == 6
\* SpecWrap draws grids of 1..MaxDim cells on each axis.
MaxDim == 4

\* The (clientWidth, clientHeight) pairs the game area takes.
Viewports == {<<100, 80>>, <<80, 80>>}
\* The game area of SpecBig: a grid that holds (10,10) and (15,15).
BigViewport == <<320, 320>>

(* ----------------------------- constants ------------------------------- *)

CELL_SIZE == 20
INITIAL_SNAKE == << <<10, 10>> >>
INITIAL_DIRECTION == <<1, 0>>
INITIAL_FOOD == <<15, 15>>

DIFFICULTIES ==
  [hard      |-> [speed |-> 100, obstacleCount |-> 10],
   extreme   |-> [speed |-> 80,  obstacleCount |-> 15],
   nightmare |-> [speed |-> 60,  obstacleCount |-> 20]]

DifficultyNames == DOMAIN DIFFICULTIES

COLORS == <<"#39FF14", "#00FFFF", "#FF69B4", "#FFD300", "#8A2BE2">>

ArrowKeys == {"ArrowUp", "ArrowDown", "ArrowLeft", "ArrowRight"}

(* ------------------------------ helpers -------------------------------- *)

Range(s) == {s[i] : i \in 1..Len(s)}

\* array.pop() on a copy: the sequence without its last element
Front(s) == SubSeq(s, 1, Len(s) - 1)

\* the values Math.random() takes, as numerators over RandDen
MathRandom == 0..(RandNum - 1)

\* Math.floor(Math.random() * dim)
RandomCoord(dim) == {(k * dim) \div RandDen : k \in MathRandom}

\* { x: floor(random * width), y: floor(random * height) }
RandomCells(g) == {<<x, y>> : x \in RandomCoord(g[1]), y \in RandomCoord(g[2])}

\* calculateGridSize: floor(client size / CELL_SIZE) on each axis
CalculateGridSize(v) == <<v[1] \div CELL_SIZE, v[2] \div CELL_SIZE>>

\* the subsets of S with k elements
RECURSIVE KSubsets(_, _)
KSubsets(S, k) ==
  IF k = 0 THEN {{}}
  ELSE IF Cardinality(S) < k THEN {}
  ELSE LET x == CHOOSE c \in S : TRUE
       IN  KSubsets(S \ {x}, k) \cup
           {T \cup {x} : T \in KSubsets(S \ {x}, k - 1)}

\* generateFood: the cells the do-while loop can end on (none: it never ends)
GenerateFood(g, sn, obs) ==
  {c \in RandomCells(g) : c \notin Range(sn) /\ c \notin obs}

\* a for loop that stops one obstacle early
GenerateObstaclesOneShort(diff, g, sn, fd) ==
  KSubsets(RandomCells(g) \ (Range(sn) \cup {fd}),
           DIFFICULTIES[diff].obstacleCount - 1)

\* generateObstacles: the batches the for loop can end on (none: it never ends)
GenerateObstacles(diff, g, sn, fd) ==
  KSubsets(RandomCells(g) \ (Range(sn) \cup {fd}),
           DIFFICULTIES[diff].obstacleCount)

\* a wrap-around that re-enters one cell too far
WrapOffByOne(v, dim) ==
  LET a == IF v < 0 THEN dim ELSE v
  IN  IF a > dim THEN 0 ELSE a

\* the wrap-around of one coordinate: the two ifs of the source, in order
Wrap(v, dim) ==
  LET a == IF v < 0 THEN dim - 1 ELSE v
  IN  IF a >= dim THEN 0 ELSE a

\* the head a tick computes
NewHead(sn, dir, g) ==
  <<Wrap(sn[1][1] + dir[1], g[1]), Wrap(sn[1][2] + dir[2], g[2])>>

\* a collision check that takes the last cell as vacated already
CollidesTailVacated(h, sn, obs) == h \in obs \/ h \in Range(Front(sn))

\* a tick that ignores the snake's own body
CollidesObstaclesOnly(h, sn, obs) == h \in obs

\* collision with obstacles or self, against the snake before the move
Collides(h, sn, obs) == h \in obs \/ h \in Range(sn)

\* a tick that always drops the tail
MovedNoGrow(sn, head, fd) == <<head>> \o Front(sn)

\* the snake a tick without collision returns: unshift(head), and pop()
\* unless the head is on the food
Moved(sn, head, fd) ==
  IF head = fd THEN <<head>> \o sn ELSE <<head>> \o Front(sn)

\* "Add a new obstacle every 5 points": the test of the source, on the
\* score of the render the tick runs in
ObstacleMilestone(sc) == sc > 0 /\ sc % 5 = 0

\* the unit vector of an arrow key
KeyVector(key) ==
  CASE key = "ArrowUp"    -> <<0, -1>>
    [] key = "ArrowDown"  -> <<0, 1>>
    [] key = "ArrowLeft"  -> <<-1, 0>>
    [] key = "ArrowRight" -> <<1, 0>>

Directions == {KeyVector(key) : key \in ArrowKeys}

\* an updater that takes every key
KeyDirectionAlways(key, prev) == KeyVector(key)

\* the updater a key hands to setDirection
KeyDirection(key, prev) ==
  CASE key = "ArrowUp"    -> IF prev[2] = 0 THEN <<0, -1>> ELSE prev
    [] key = "ArrowDown"  -> IF prev[2] = 0 THEN <<0, 1>> ELSE prev
    [] key = "ArrowLeft"  -> IF prev[1] = 0 THEN <<-1, 0>> ELSE prev
    [] key = "ArrowRight" -> IF prev[1] = 0 THEN <<1, 0>> ELSE prev

(* ------------------------------- state --------------------------------- *)

\* The state after the first render and the mount effect (calculateGridSize).
\* loops is the number of (interval, key listener) pairs the game-loop
\* effect has armed and not torn down.  applied is the direction the last
\* tick of this game moved by, <<0, 0>> before the first tick of a game.
Init ==
  /\ snake = INITIAL_SNAKE
  /\ direction = INITIAL_DIRECTION
  /\ food = INITIAL_FOOD
  /\ obstacles = {}
  /\ gameOver = FALSE
  /\ score = 0
  /\ difficulty = "hard"
  /\ snakeColor = COLORS[1]
  /\ gridSize \in {CalculateGridSize(v) : v \in Viewports}
  /\ isPlaying = FALSE
  /\ loops = 0
  /\ applied = <<0, 0>>

\* the game status the two flags stand for; idle and paused are both
\* "neither flag"
Status ==
  IF gameOver THEN "over"
  ELSE IF isPlaying THEN "running"
  ELSE IF score > 0 THEN "paused" ELSE "idle"

\* a loop whose interval and key listener are never torn down
LoopArmedAlways == TRUE

\* an interval and a key listener of the game-loop effect are armed
LoopArmed == loops > 0

\* an effect whose cleanup removes nothing
GameLoopEffectNoCleanup(n, was, now) == IF now THEN n + 1 ELSE n

\* an effect without its early return: it arms whatever isPlaying is
GameLoopEffectAlwaysArms(n, was, now) == (IF was THEN n - 1 ELSE n) + 1

\* one run of the game-loop effect on n armed pairs: the cleanup the last
\* run returned (it returned one when it saw isPlaying) removes its listener
\* and clears its interval, then the effect returns at once unless
\* isPlaying and else arms a listener and an interval
GameLoopEffect(n, was, now) ==
  LET cleaned == IF was THEN n - 1 ELSE n
  IN  IF now THEN cleaned + 1 ELSE cleaned

\* a dependency of the game-loop effect differs after the handler:
\* difficulty, isPlaying, or moveSnake (direction, food, gridSize, obstacles,
\* score, and through generateFood and generateObstacles the snake)
DepsChanged ==
  \/ difficulty' # difficulty
  \/ isPlaying' # isPlaying
  \/ <<direction, food, gridSize, obstacles, score, snake>>' #
       <<direction, food, gridSize, obstacles, score, snake>>

\* the render after a handler: the game-loop effect runs again when one of
\* its dependencies changed
RunEffects ==
  loops' = IF DepsChanged
           THEN GameLoopEffect(loops, isPlaying, isPlaying')
           ELSE loops

(* ------------------------------ actions -------------------------------- *)

\* startGame
StartGame ==
  /\ snake' = INITIAL_SNAKE
  /\ direction' = INITIAL_DIRECTION
  /\ food' \in GenerateFood(gridSize, snake, obstacles)
  /\ obstacles' \in GenerateObstacles(difficulty, gridSize, snake, food)
  /\ gameOver' = FALSE
  /\ score' = 0
  /\ isPlaying' = TRUE
  /\ applied' = <<0, 0>>
  /\ UNCHANGED <<difficulty, snakeColor, gridSize>>
  /\ RunEffects

\* the Start button
Start == ~isPlaying /\ ~gameOver /\ StartGame

\* the Play Again button of the game-over overlay
PlayAgain == gameOver /\ StartGame

\* pauseGame, behind the Pause button
Pause ==
  /\ isPlaying
  /\ isPlaying' = FALSE
  /\ UNCHANGED <<snake, direction, food, obstacles, gameOver, score,
                 difficulty, snakeColor, gridSize, applied>>
  /\ RunEffects

\* a Resume button shown over a finished game too
ResumeWhenOver ==
  /\ ~isPlaying /\ score > 0
  /\ isPlaying' = TRUE
  /\ UNCHANGED <<snake, direction, food, obstacles, gameOver, score,
                 difficulty, snakeColor, gridSize, applied>>
  /\ loops' = GameLoopEffect(loops, isPlaying, TRUE)

\* resumeGame, behind the Resume button
Resume ==
  /\ ~isPlaying /\ ~gameOver /\ score > 0
  /\ isPlaying' = TRUE
  /\ UNCHANGED <<snake, direction, food, obstacles, gameOver, score,
                 difficulty, snakeColor, gridSize, applied>>
  /\ RunEffects

\* handleKeyPress
KeyPress ==
  /\ LoopArmed
  /\ \E key \in ArrowKeys : direction' = KeyDirection(key, direction)
  /\ UNCHANGED <<snake, food, obstacles, gameOver, score, difficulty,
                 snakeColor, gridSize, isPlaying, applied>>
  /\ RunEffects

\* moveSnake, called by the interval
Tick ==
  /\ LoopArmed
  /\ applied' = direction
  /\ LET head == NewHead(snake, direction, gridSize) IN
       IF Collides(head, snake, obstacles)
       THEN /\ gameOver' = TRUE
            /\ isPlaying' = FALSE
            /\ UNCHANGED <<snake, direction, food, obstacles, score,
                           difficulty, gridSize>>
       ELSE /\ snake' = Moved(snake, head, food)
            /\ IF head = food
               THEN /\ score' = score + 1
                    /\ food' \in GenerateFood(gridSize, snake, obstacles)
                    /\ IF ObstacleMilestone(score)
                       THEN obstacles' \in GenerateObstacles(difficulty,
                                             gridSize, snake, food)
                       ELSE UNCHANGED obstacles
               ELSE UNCHANGED <<score, food, obstacles>>
            /\ UNCHANGED <<direction, gameOver, difficulty, gridSize,
                           isPlaying>>
  /\ UNCHANGED snakeColor
  /\ RunEffects

\* the difficulty buttons
SetDifficulty ==
  /\ \E d \in DifficultyNames : difficulty' = d
  /\ UNCHANGED <<snake, direction, food, obstacles, gameOver, score,
                 snakeColor, gridSize, isPlaying, applied>>
  /\ RunEffects

\* the colour buttons
SetColor ==
  /\ \E i \in DOMAIN COLORS : snakeColor' = COLORS[i]
  /\ UNCHANGED <<snake, direction, food, obstacles, gameOver, score,
                 difficulty, gridSize, isPlaying, applied>>
  /\ RunEffects

\* a resize that also puts the snake back on its initial cell
ResizeResetsSnake ==
  /\ \E v \in Viewports : gridSize' = CalculateGridSize(v)
  /\ snake' = INITIAL_SNAKE
  /\ UNCHANGED <<direction, food, obstacles, gameOver, score,
                 difficulty, snakeColor, isPlaying, applied>>
  /\ RunEffects

\* calculateGridSize, on a resize of the window
Resize ==
  /\ \E v \in Viewports : gridSize' = CalculateGridSize(v)
  /\ UNCHANGED <<snake, direction, food, obstacles, gameOver, score,
                 difficulty, snakeColor, isPlaying, applied>>
  /\ RunEffects

(* --------------------------- specifications ---------------------------- *)

\* every handler, games followed up to MaxScore
BoundedTick == Tick /\ score' <= MaxScore

Next ==
  \/ Start
  \/ PlayAgain
  \/ Pause
  \/ Resume
  \/ KeyPress
  \/ BoundedTick
  \/ SetDifficulty
  \/ Resize

Spec == Init /\ [][Next]_vars

\* play alone (start, keys, ticks), games followed up to MaxPlayScore
PlayTick == Tick /\ score' <= MaxPlayScore

NextPlay ==
  \/ Start
  \/ PlayAgain
  \/ KeyPress
  \/ PlayTick

SpecPlay == Init /\ [][NextPlay]_vars

\* every handler and the colour buttons, without keys: the snake moves by
\* the initial direction
NextUI ==
  \/ Start
  \/ PlayAgain
  \/ Pause
  \/ Resume
  \/ BoundedTick
  \/ SetDifficulty
  \/ SetColor
  \/ Resize

SpecUI == Init /\ [][NextUI]_vars

\* play on the grid of BigViewport, never resized, after the extreme
\* difficulty was picked, games followed up to MaxScore
InitBig ==
  /\ snake = INITIAL_SNAKE
  /\ direction = INITIAL_DIRECTION
  /\ food = INITIAL_FOOD
  /\ obstacles = {}
  /\ gameOver = FALSE
  /\ score = 0
  /\ difficulty = "extreme"
  /\ snakeColor = COLORS[1]
  /\ gridSize = CalculateGridSize(BigViewport)
  /\ isPlaying = FALSE
  /\ loops = 0
  /\ applied = <<0, 0>>

NextBig ==
  \/ Start
  \/ PlayAgain
  \/ KeyPress
  \/ BoundedTick

SpecBig == InitBig /\ [][NextBig]_vars

\* the head computation alone: every grid of 1..MaxDim cells on each axis,
\* a one-cell snake anywhere inside it, every direction
InitWrap ==
  /\ gridSize \in (1..MaxDim) \X (1..MaxDim)
  /\ \E x \in 0..(MaxDim - 1), y \in 0..(MaxDim - 1) :
       /\ x < gridSize[1] /\ y < gridSize[2]
       /\ snake = << <<x, y>> >>
  /\ direction \in Directions
  /\ food = INITIAL_FOOD
  /\ obstacles = {}
  /\ gameOver = FALSE
  /\ score = 0
  /\ difficulty = "hard"
  /\ snakeColor = COLORS[1]
  /\ isPlaying = TRUE
  /\ loops = 1
  /\ applied = <<0, 0>>

WrapStep ==
  /\ snake' = <<NewHead(snake, direction, gridSize)>>
  /\ applied' = direction
  /\ direction' \in Directions
  /\ UNCHANGED <<food, obstacles, gameOver, score, difficulty, snakeColor,
                 gridSize, isPlaying, loops>>

SpecWrap == InitWrap /\ [][WrapStep]_vars

(* ------------------------------- claims -------------------------------- *)

\* the head a tick moves to, by the arithmetic of the claims: each
\* coordinate plus its direction component, modulo the grid dimension
ModHead ==
  <<(snake[1][1] + direction[1]) % gridSize[1],
    (snake[1][2] + direction[2]) % gridSize[2]>>

\* the head a tick of the current state computes
TickHead == NewHead(snake, direction, gridSize)

\* the head of the current state is on an obstacle or on the snake
HeadBlocked ==
  TickHead \in obstacles \/ \E i \in 1..Len(snake) : snake[i] = TickHead

\* C1: a tick whose wrapped new head is on an obstacle or on a cell of the
\* snake as it is before the tick sets the status to over and leaves snake,
\* food, obstacles and score as they were.
CollisionEndsGame ==
  [][(Tick /\ HeadBlocked) =>
       /\ Status' = "over"
       /\ snake' = snake /\ food' = food
       /\ obstacles' = obstacles /\ score' = score]_vars

\* C1 witness: a game that a tick ended, after food was eaten: the head is
\* still blocked in the direction the last tick applied
CollisionEndsGameWitness ==
  /\ Status = "over" /\ score > 0
  /\ applied = direction
  /\ HeadBlocked

\* C2: from a state whose status is over, a step is either startGame or
\* leaves the status over and snake, food, obstacles and score unchanged,
\* and it is no tick.
OverIsTerminal ==
  [][(Status = "over") =>
       \/ StartGame
       \/ /\ Status' = "over"
          /\ ~Tick
          /\ snake' = snake /\ food' = food
          /\ obstacles' = obstacles /\ score' = score]_vars

\* C2 witness: a game over in which the difficulty and the grid have been
\* changed since the game began
OverIsTerminalWitness ==
  /\ Status = "over"
  /\ difficulty # "hard"
  /\ Cardinality(obstacles) = DIFFICULTIES["hard"].obstacleCount
  /\ RandomCells(gridSize) \cap obstacles # obstacles

\* C3: in every state the food is on no cell of the snake and on no
\* obstacle.
FoodIsClear ==
  food \notin Range(snake) /\ food \notin obstacles

\* C4: in every state no obstacle is on a cell of the snake or on the food.
ObstaclesAreClear ==
  \A o \in obstacles : o \notin Range(snake) /\ o # food

\* C5: a tick that raises the score to a positive multiple of 5 keeps every
\* obstacle and adds obstacleCount new ones.
MilestoneAppendsBatch ==
  [][(Tick /\ score' = score + 1 /\ score' % 5 = 0) =>
       /\ obstacles \subseteq obstacles'
       /\ Cardinality(obstacles') =
            Cardinality(obstacles) + DIFFICULTIES[difficulty].obstacleCount]_vars

\* C6: the obstacles change only on startGame and on a tick that raises the
\* score to a positive multiple of 5.
ObstaclesChangeOnlyAtMilestone ==
  [][(obstacles' # obstacles) =>
       \/ StartGame
       \/ Tick /\ score' = score + 1 /\ score' % 5 = 0]_vars

\* C7: a tick without collision whose head is on the food prepends the head
\* to the whole snake and adds 1 to the score; any other tick without
\* collision prepends the head to the snake without its last cell and leaves
\* the score.
GrowthLaw ==
  [][(Tick /\ ~HeadBlocked) =>
       IF TickHead = food
       THEN /\ snake' = <<TickHead>> \o snake
            /\ Len(snake') = Len(snake) + 1
            /\ score' = score + 1
       ELSE /\ snake' = <<TickHead>> \o SubSeq(snake, 1, Len(snake) - 1)
            /\ Len(snake') = Len(snake)
            /\ score' = score]_vars

\* C7 witness: a running game whose snake has eaten once and has moved on
\* from the cell where it ate
GrowthLawWitness ==
  /\ Status = "running" /\ score = 1 /\ Len(snake) = 2
  /\ food \notin Range(snake)
  /\ NewHead(<<snake[2]>>, applied, gridSize) = snake[1]

\* C8: on a grid of at least one cell on each axis and a head inside it,
\* the new head is ((x + dx) mod width, (y + dy) mod height); leaving an
\* edge re-enters at the opposite edge and the other axis is unchanged.
WrapLaw ==
  [][WrapStep =>
       LET x == snake[1][1]  y == snake[1][2]
           dx == direction[1]  dy == direction[2]
           w == gridSize[1]  h == gridSize[2]
           nx == snake'[1][1]  ny == snake'[1][2]
       IN  /\ <<nx, ny>> = ModHead
           /\ (x = 0 /\ dx = -1) => (nx = w - 1 /\ ny = y)
           /\ (x = w - 1 /\ dx = 1) => (nx = 0 /\ ny = y)
           /\ (y = 0 /\ dy = -1) => (ny = h - 1 /\ nx = x)
           /\ (y = h - 1 /\ dy = 1) => (ny = 0 /\ nx = x)]_vars

\* C8 witness: a head that left the left edge of a grid at least two cells
\* wide and re-entered at the right edge
WrapLawWitness ==
  /\ applied = <<-1, 0>>
  /\ gridSize[1] >= 2
  /\ snake[1][1] = gridSize[1] - 1

\* C9: a tick never applies the exact opposite of the direction the tick
\* before it applied in the same game.
NoReverseBetweenTicks ==
  [][(Tick /\ applied # <<0, 0>>) =>
       direction # <<-applied[1], -applied[2]>>]_vars

\* C10: a key on the other axis than the current direction sets the
\* direction to the key's unit vector, a key on the same axis leaves it, and
\* a key changes nothing else.
KeyChangesAxisOnly ==
  [][KeyPress =>
       /\ \E key \in ArrowKeys :
            LET v == KeyVector(key)
                sameAxis == (v[1] = 0) = (direction[1] = 0)
            IN  direction' = IF sameAxis THEN direction ELSE v
       /\ snake' = snake /\ food' = food /\ obstacles' = obstacles
       /\ score' = score /\ Status' = Status]_vars

\* C10 witness: a running game whose direction a key has turned to the
\* other axis since the last tick
KeyChangesAxisOnlyWitness ==
  /\ Status = "running"
  /\ applied # <<0, 0>>
  /\ (applied[1] = 0) # (direction[1] = 0)

\* startGame and resumeGame are the two handlers that set isPlaying: a step
\* that sets it and is no Resume is a startGame
StartStep == ~isPlaying /\ isPlaying' /\ ~Resume

\* C11: startGame, from whatever state, leaves the snake as the single
\* cell (10,10), the direction (1,0), the score 0, the status running, a
\* food cell drawn on the grid and exactly obstacleCount distinct obstacle
\* cells drawn on the grid.
StartResets ==
  [][StartStep =>
       /\ snake' = << <<10, 10>> >>
       /\ direction' = <<1, 0>>
       /\ score' = 0
       /\ isPlaying' /\ ~gameOver'
       /\ food'[1] \in 0..(gridSize[1] - 1) /\ food'[2] \in 0..(gridSize[2] - 1)
       /\ Cardinality(obstacles') = DIFFICULTIES[difficulty].obstacleCount
       /\ \A o \in obstacles' :
            o[1] \in 0..(gridSize[1] - 1) /\ o[2] \in 0..(gridSize[2] - 1)]_vars

\* C11 witness: a game just started again over a finished or paused one: no
\* tick yet, and the food is not where the first start of a session can
\* put it next to these obstacles
StartResetsWitness ==
  /\ isPlaying /\ score = 0 /\ applied = <<0, 0>>
  /\ snake = INITIAL_SNAKE
  /\ Cardinality(obstacles) = DIFFICULTIES["hard"].obstacleCount
  /\ Cardinality(RandomCells(gridSize) \ (obstacles \cup {food})) = 1

\* the game is paused: stopped by Pause, neither idle nor over (obstacles
\* exist from the first start on)
Paused == ~isPlaying /\ ~gameOver /\ obstacles # {}

\* C12: Pause and Resume change only the status; from a paused state no
\* step is a tick or a key, and every step but startGame leaves snake,
\* direction, food, obstacles and score as they are.
PauseResumeFrame ==
  [][/\ Pause =>
          /\ ~isPlaying' /\ gameOver' = gameOver
          /\ snake' = snake /\ direction' = direction /\ food' = food
          /\ obstacles' = obstacles /\ score' = score
     /\ Resume =>
          /\ isPlaying' /\ gameOver' = gameOver
          /\ snake' = snake /\ direction' = direction /\ food' = food
          /\ obstacles' = obstacles /\ score' = score
     /\ Paused =>
          /\ ~Tick /\ ~KeyPress
          /\ \/ /\ snake' = snake /\ direction' = direction /\ food' = food
                /\ obstacles' = obstacles /\ score' = score
             \/ StartStep]_vars

\* C12 witness: a game paused with food eaten and with a turned direction
\* that no tick has applied yet
PauseResumeFrameWitness ==
  /\ Paused /\ score > 0
  /\ applied # <<0, 0>> /\ applied # direction

\* C13: the snake has at least one cell and no cell twice.
SnakeIsSimple ==
  /\ Len(snake) >= 1
  /\ \A i, j \in 1..Len(snake) : snake[i] = snake[j] => i = j

\* C13 witness: a snake of four cells that has just moved without eating
SnakeIsSimpleWitness ==
  /\ isPlaying /\ Len(snake) = 4 /\ food \notin Range(snake)
  /\ NewHead(<<snake[2]>>, applied, gridSize) = snake[1]

\* C14: a tick whose new head is the last cell of the snake as it is before
\* the tick ends the game and does not move the snake.
TailCellCollides ==
  [][(Tick /\ TickHead = snake[Len(snake)]) =>
       /\ gameOver' /\ ~isPlaying'
       /\ snake' = snake]_vars

\* C14 witness: a finished game whose snake of at least three cells ran
\* into its own last cell
TailCellCollidesWitness ==
  /\ gameOver /\ Len(snake) >= 3
  /\ applied = direction
  /\ TickHead = snake[Len(snake)]
  /\ TickHead \notin obstacles

\* C15: at most one interval and key listener pair is armed, and one is
\* armed exactly when the game is running.
OneLoopWhileRunning ==
  /\ loops \in {0, 1}
  /\ (loops = 1) = (isPlaying /\ ~gameOver)

\* C15 witness: a loop armed in a resumed game after the difficulty changed
OneLoopWhileRunningWitness ==
  /\ loops = 1 /\ score > 0
  /\ difficulty = "nightmare"
  /\ applied # <<0, 0>>

\* C18: in every paused state, at whatever score, Resume is enabled.
ResumeAlwaysAvailable == Paused => ENABLED Resume

\* C19: isPlaying and gameOver are never both true.
FlagsExclusive == ~(isPlaying /\ gameOver)

\* C19 witness: a finished game with food eaten, left by Play Again and
\* finished again at another difficulty
FlagsExclusiveWitness ==
  /\ gameOver /\ ~isPlaying /\ score > 0
  /\ difficulty = "extreme"

\* C20: the snake has score + 1 cells.
LengthIsScorePlusOne == Len(snake) = score + 1

\* C20 witness: a game in which the snake ate three times
LengthIsScorePlusOneWitness ==
  /\ score = 3 /\ Len(snake) = 4 /\ gameOver

\* a cell lies on the grid
OnGrid(c) ==
  /\ 0 <= c[1] /\ c[1] < gridSize[1]
  /\ 0 <= c[2] /\ c[2] < gridSize[2]

\* C16: on a grid that is never resized and holds (10,10) and (15,15),
\* every cell of the snake, the food and every obstacle lie on the grid.
CellsOnGrid ==
  (OnGrid(<<10, 10>>) /\ OnGrid(<<15, 15>>)) =>
    /\ \A i \in 1..Len(snake) : OnGrid(snake[i])
    /\ OnGrid(food)
    /\ \A o \in obstacles : OnGrid(o)

\* C16 witness: on such a grid, a snake that ate and then left the top edge
\* and re-entered at the bottom
CellsOnGridWitness ==
  /\ OnGrid(<<10, 10>>) /\ OnGrid(<<15, 15>>)
  /\ score = 1 /\ Len(snake) = 2
  /\ applied = <<0, -1>>
  /\ snake[1][2] = gridSize[2] - 1 /\ snake[2][2] = 0

\* C17: a difficulty button, a colour button and a resize leave snake,
\* direction, food, obstacles, score and both status flags as they are, and
\* leave as many loops armed as before.
SettingsFrame ==
  [][(SetDifficulty \/ SetColor \/ Resize) =>
       /\ snake' = snake /\ direction' = direction /\ food' = food
       /\ obstacles' = obstacles /\ score' = score
       /\ isPlaying' = isPlaying /\ gameOver' = gameOver
       /\ loops' = loops]_vars

\* C17 witness: a paused game with food eaten whose colour, difficulty and
\* grid have all been changed
SettingsFrameWitness ==
  /\ Paused /\ score > 0
  /\ snakeColor = COLORS[3]
  /\ difficulty = "nightmare"
  /\ RandomCells(gridSize) \cap obstacles # obstacles

====
